---------------------------- MODULE Spec2Model ----------------------------
(***************************************************************************)
(* A model of src/test_dir/multilang/example.rs: the User record, the      *)
(* Message enum, the Summary trait with its binding for User, the          *)
(* create_user function and the entry point main.                          *)
(*                                                                         *)
(* Text (Rust String) is a sequence of one-character strings, so that      *)
(* formatting is modelled by what it does to the characters.  An optional  *)
(* value is a sequence of length at most one: <<>> is "no value yet" and   *)
(* <<v>> holds v.                                                          *)
(*                                                                         *)
(* Two threads of control are modelled.  The entry point main runs its     *)
(* statements in program order (pc).  Beside it a caller of the public     *)
(* items (create_user, Summary::summarize, Summary::default_summary,       *)
(* Message::Write) invokes them on inputs drawn from small sets; `call`    *)
(* is the caller's latest invocation with its result and `ref` an earlier  *)
(* create_user invocation the caller chose to remember.                    *)
(***************************************************************************)
EXTENDS Naturals, Sequences, FiniteSets

VARIABLES pc, user, message, summary, stdout, exit_code, call, ref

vars == <<pc, user, message, summary, stdout, exit_code, call, ref>>

---------------------------------------------------------------------------
(* Optional values *)

None == <<>>

Some(v) == <<v>>

---------------------------------------------------------------------------
(* Text literals of the source *)

\* "johndoe" (main, line 50)
Lit_johndoe == <<"j","o","h","n","d","o","e">>

\* "john@example.com" (main, line 51)
Lit_john_email ==
    <<"j","o","h","n","@","e","x","a","m","p","l","e",".","c","o","m">>

\* "Hello, world!" (main, line 54)
Lit_hello == <<"H","e","l","l","o",","," ","w","o","r","l","d","!">>

\* "(Read more...)" (Summary::default_summary, line 26)
Lit_read_more ==
    <<"(","R","e","a","d"," ","m","o","r","e",".",".",".",")">>

\* The format string "{} ({})" of summarize (line 33)
Fmt_summarize == <<"{","}"," ","(","{","}",")">>

\* The format string "User summary: {}" of main's println! (line 56)
Fmt_main ==
    <<"U","s","e","r"," ","s","u","m","m","a","r","y",":"," ","{","}">>

---------------------------------------------------------------------------
(* Inputs of the caller *)

\* The largest sign_in_count of a User value the caller passes to the trait
\* methods (the field is a u64; no operation does arithmetic on it)
MaxCount == 1

Counts == 0..MaxCount

\* A text holding the characters the format strings are made of
Lit_tricky == <<"a"," ","(","b",")","{","}">>

\* Sample texts for each String input: the empty text, the literal main
\* passes, and the text of format characters
Usernames == { <<>>, Lit_johndoe, Lit_tricky }

Emails == { <<>>, Lit_john_email, Lit_tricky }

Payloads == { <<>>, Lit_hello, Lit_tricky }

\* struct User (lines 6-11)
UserType ==
    [username : Usernames, email : Emails, sign_in_count : Counts,
     active : BOOLEAN]

\* The cases of enum Message (lines 14-19)
MessageTags == {"Quit", "Move", "Write", "ChangeColor"}

---------------------------------------------------------------------------
(* Formatting: format!/println! with {} placeholders *)

\* The text of `fmt` with each "{}" replaced by the next argument, in order
RECURSIVE Format(_, _)
Format(fmt, args) ==
    IF fmt = <<>> THEN <<>>
    ELSE IF Len(fmt) >= 2 /\ fmt[1] = "{" /\ fmt[2] = "}"
         THEN Head(args) \o Format(SubSeq(fmt, 3, Len(fmt)), Tail(args))
         ELSE <<Head(fmt)>> \o Format(Tail(fmt), args)

\* Println with the line terminator forgotten (print! for println!)
Println_no_newline(fmt, args) == Format(fmt, args)

\* println!: the formatted text followed by a newline
Println(fmt, args) == Format(fmt, args) \o <<"\n">>

---------------------------------------------------------------------------
(* The items of the source *)

\* Message_Write losing its payload
Message_Write_empty(payload) == [tag |-> "Write", f0 |-> <<>>]

\* Message::Write(String) (line 17): the Write case carrying its payload
Message_Write(payload) == [tag |-> "Write", f0 |-> payload]

\* Summary::default_summary (lines 25-27)
Summary_default_summary(self) == Lit_read_more

\* User_summarize with the space of the format string forgotten
User_summarize_no_space(self) ==
    self.username \o <<"(">> \o self.email \o <<")">>

\* User_summarize also reporting the active flag
User_summarize_with_active(self) ==
    Format(Fmt_summarize, <<self.username, self.email>>)
        \o (IF self.active THEN <<>> ELSE <<"!">>)

\* impl Summary for User: summarize (lines 32-34)
User_summarize(self) == Format(Fmt_summarize, <<self.username, self.email>>)

\* User_default_summary overridden by the binding
User_default_summary_overridden(self) ==
    Format(Fmt_summarize, <<self.username, self.email>>)

\* impl Summary for User overrides nothing else: default_summary is the
\* trait's (lines 31-35)
User_default_summary(self) == Summary_default_summary(self)

\* create_user starting sign_in_count at 0
create_user_zero_count(username, email) ==
    [username |-> username, email |-> email, sign_in_count |-> 0,
     active |-> TRUE]

\* create_user numbering its records after the remembered one
create_user_counting(username, email) ==
    [username |-> username, email |-> email,
     sign_in_count |->
        IF ref = None THEN 1 ELSE ref[1].ret.sign_in_count + 1,
     active |-> TRUE]

\* create_user (lines 38-45)
create_user(username, email) ==
    [username |-> username, email |-> email, sign_in_count |-> 1,
     active |-> TRUE]

---------------------------------------------------------------------------
(* The entry point main, one action per step *)

\* MainCreateUser going on to summarize, the message not constructed
MainCreateUser_skips_message ==
    /\ pc = "create"
    /\ user' = Some(create_user(Lit_johndoe, Lit_john_email))
    /\ pc' = "summarize"
    /\ UNCHANGED <<message, summary, stdout, exit_code, call, ref>>

\* let mut user = create_user(String::from("johndoe"), ...) (lines 49-52)
MainCreateUser ==
    /\ pc = "create"
    /\ user' = Some(create_user(Lit_johndoe, Lit_john_email))
    /\ pc' = "message"
    /\ UNCHANGED <<message, summary, stdout, exit_code, call, ref>>

\* let message = Message::Write(String::from("Hello, world!")) (line 54)
MainMessage ==
    /\ pc = "message"
    /\ message' = Some(Message_Write(Lit_hello))
    /\ pc' = "summarize"
    /\ UNCHANGED <<user, summary, stdout, exit_code, call, ref>>

\* MainSummarize using the mutable binding to count a sign-in
MainSummarize_bumps_count ==
    /\ pc = "summarize"
    /\ summary' = Some(User_summarize(user[1]))
    /\ user' = Some([user[1] EXCEPT !.sign_in_count = @ + 1])
    /\ pc' = "print"
    /\ UNCHANGED <<message, stdout, exit_code, call, ref>>

\* user.summarize(), the argument of println! (line 56)
MainSummarize ==
    /\ pc = "summarize"
    /\ summary' = Some(User_summarize(user[1]))
    /\ pc' = "print"
    /\ UNCHANGED <<user, message, stdout, exit_code, call, ref>>

\* println!("User summary: {}", ...) (line 56).  The write to standard
\* output is taken to succeed: the source has no path for its failure.
MainPrint ==
    /\ pc = "print"
    /\ stdout' = stdout \o Println(Fmt_main, <<summary[1]>>)
    /\ pc' = "return"
    /\ UNCHANGED <<user, message, summary, exit_code, call, ref>>

\* MainReturn never returning (main spins after the print)
MainReturn_spins ==
    /\ pc = "return"
    /\ UNCHANGED vars

\* main returns (line 57): the process exits with status 0
MainReturn ==
    /\ pc = "return"
    /\ exit_code' = Some(0)
    /\ pc' = "done"
    /\ UNCHANGED <<user, message, summary, stdout, call, ref>>

MainNext ==
    \/ MainCreateUser
    \/ MainMessage
    \/ MainSummarize
    \/ MainPrint
    \/ MainReturn

---------------------------------------------------------------------------
(* The caller of the public items *)

\* create_user(username, email)
CallCreateUser(username, email) ==
    /\ call' = [op |-> "create_user", username |-> username, email |-> email,
                ret |-> create_user(username, email)]
    /\ UNCHANGED <<pc, user, message, summary, stdout, exit_code, ref>>

\* The caller sets its latest create_user invocation aside, to compare a
\* later one with it
Remember ==
    /\ call.op = "create_user"
    /\ ref' = Some(call)
    /\ call' = [op |-> "none"]
    /\ UNCHANGED <<pc, user, message, summary, stdout, exit_code>>

\* self.summarize() on a User value
CallSummarize(self) ==
    /\ call' = [op |-> "summarize", self |-> self, after |-> self,
                ret |-> User_summarize(self), again |-> None]
    /\ UNCHANGED <<pc, user, message, summary, stdout, exit_code, ref>>

\* self.summarize() once more on the same User value
CallSummarizeAgain ==
    /\ call.op = "summarize"
    /\ call.again = None
    /\ call' = [call EXCEPT !.again = Some(User_summarize(call.after))]
    /\ UNCHANGED <<pc, user, message, summary, stdout, exit_code, ref>>

\* self.default_summary() on a User value
CallDefaultSummary(self) ==
    /\ call' = [op |-> "default_summary", self |-> self, after |-> self,
                ret |-> User_default_summary(self)]
    /\ UNCHANGED <<pc, user, message, summary, stdout, exit_code, ref>>

\* Message::Write(payload)
CallWrite(payload) ==
    /\ call' = [op |-> "Write", payload |-> payload,
                ret |-> Message_Write(payload)]
    /\ UNCHANGED <<pc, user, message, summary, stdout, exit_code, ref>>

CallerNext ==
    \/ \E username \in Usernames, email \in Emails :
          CallCreateUser(username, email)
    \/ Remember
    \/ \E self \in UserType : CallSummarize(self)
    \/ CallSummarizeAgain
    \/ \E self \in UserType : CallDefaultSummary(self)
    \/ \E payload \in Payloads : CallWrite(payload)

---------------------------------------------------------------------------
(* The specification *)

Init ==
    /\ pc = "create"
    /\ user = None
    /\ message = None
    /\ summary = None
    /\ stdout = <<>>
    /\ exit_code = None
    /\ call = [op |-> "none"]
    /\ ref = None

Next == MainNext \/ CallerNext

Spec == Init /\ [][Next]_vars

\* main is a sequential program: its next statement is eventually executed
FairSpec == Spec /\ WF_vars(MainNext)

---------------------------------------------------------------------------
(* Helpers of the properties *)

\* The number of line terminators in a text
NewlineCount(text) == Cardinality({i \in 1..Len(text) : text[i] = "\n"})

\* User summary: johndoe (john@example.com)
ExpectedLine ==
    <<"U","s","e","r"," ","s","u","m","m","a","r","y",":"," ",
      "j","o","h","n","d","o","e"," ","(",
      "j","o","h","n","@","e","x","a","m","p","l","e",".","c","o","m",")">>

\* johndoe (john@example.com)
ExpectedSummary ==
    <<"j","o","h","n","d","o","e"," ","(",
      "j","o","h","n","@","e","x","a","m","p","l","e",".","c","o","m",")">>

\* `text` is `username`, one space, and `email` in parentheses
IsSummaryOf(text, username, email) ==
    LET n == Len(username)
        m == Len(email)
    IN  /\ Len(text) = n + m + 3
        /\ \A i \in 1..n : text[i] = username[i]
        /\ text[n + 1] = " "
        /\ text[n + 2] = "("
        /\ \A i \in 1..m : text[n + 2 + i] = email[i]
        /\ text[n + m + 3] = ")"

\* The successive positions of main
PcOrder ==
    { <<"create", "message">>, <<"message", "summarize">>,
      <<"summarize", "print">>, <<"print", "return">>, <<"return", "done">> }

---------------------------------------------------------------------------
(* Properties *)

\* C1: a run of main writes exactly one line to standard output, the line
\* `User summary: johndoe (john@example.com)`: no state has more than one
\* line terminator in the output, the output is either still empty or that
\* line, and in the final state it is that line.
C1_OneOutputLine ==
    /\ NewlineCount(stdout) <= 1
    /\ stdout \in {<<>>, ExpectedLine \o <<"\n">>}
    /\ pc \in {"return", "done"} => stdout = ExpectedLine \o <<"\n">>
    /\ pc \notin {"return", "done"} => stdout = <<>>

C1_Witness == pc = "done" /\ NewlineCount(stdout) = 1

\* C2: summarize returns the username, a single space, and the email in
\* parentheses, from the values stored in the record at the call; for
\* johndoe and john@example.com it is "johndoe (john@example.com)".
C2_SummarizeFormat ==
    /\ call.op = "summarize" =>
          /\ IsSummaryOf(call.ret, call.self.username, call.self.email)
          /\ (call.self.username = Lit_johndoe
                /\ call.self.email = Lit_john_email)
             => call.ret = ExpectedSummary
    /\ summary # None =>
          /\ IsSummaryOf(summary[1], user[1].username, user[1].email)
          /\ summary[1] = ExpectedSummary

C2_Witness ==
    /\ call.op = "summarize"
    /\ call.self.username = Lit_johndoe
    /\ call.self.email = Lit_john_email
    /\ call.ret = ExpectedSummary

\* C3: for every pair of texts, the empty text included, create_user
\* returns a record with the username and the email it was given, a
\* sign_in_count of 1 and active set; it returns a record in every case.
C3_CreateUserFields ==
    call.op = "create_user" =>
        /\ DOMAIN call.ret = {"username", "email", "sign_in_count", "active"}
        /\ call.ret.username = call.username
        /\ call.ret.email = call.email
        /\ call.ret.sign_in_count = 1
        /\ call.ret.active = TRUE

C3_Witness ==
    /\ call.op = "create_user"
    /\ call.username = <<>>
    /\ call.email = Lit_tricky

\* C4: main always terminates normally: every run reaches the final state
\* with exit status 0, the final state comes only after the print, and no
\* state has another exit status or position.
C4_TerminatesNormally ==
    /\ <>(pc = "done" /\ exit_code = Some(0))
    /\ [](pc = "done" => exit_code = Some(0) /\ NewlineCount(stdout) = 1)
    /\ [](exit_code \in {None, Some(0)})
    /\ [](pc \in {"create", "message", "summarize", "print", "return",
                  "done"})
    /\ [](exit_code # None => pc = "done")

C4_Witness == pc = "done" /\ exit_code = Some(0) /\ stdout # <<>>

\* C5: default_summary on a User, which does not override it, returns
\* "(Read more...)" whatever the fields of the record are.
C5_DefaultSummary ==
    call.op = "default_summary" =>
        call.ret = <<"(","R","e","a","d"," ","m","o","r","e",".",".",".",")">>

C5_Witness ==
    /\ call.op = "default_summary"
    /\ call.self.username = Lit_johndoe
    /\ call.self.sign_in_count = 0
    /\ ~call.self.active

C7_WriteKeepsPayload ==
    /\ call.op = "Write" =>
          /\ call.ret.tag = "Write"
          /\ call.ret.tag \notin MessageTags \ {"Write"}
          /\ call.ret.f0 = call.payload
    /\ message # None =>
          /\ message[1].tag = "Write"
          /\ message[1].f0 =
                <<"H","e","l","l","o",","," ","w","o","r","l","d","!">>

C7_Witness ==
    /\ call.op = "Write"
    /\ call.payload = Lit_hello
    /\ message # None

\* C8: main takes its steps in one fixed order: the user record is created
\* first, then the message, then summarize is invoked on the user record,
\* and the print is last; the message is not touched after its construction
\* and the output is made of the summary alone.
C8_FixedOrder ==
    /\ [](message # None => user # None)
    /\ [](summary # None => message # None)
    /\ [](stdout # <<>> => summary # None)
    /\ [](stdout # <<>> =>
            stdout = <<"U","s","e","r"," ","s","u","m","m","a","r","y",":"," ">>
                        \o User_summarize(user[1]) \o <<"\n">>)
    /\ [][pc' # pc => <<pc, pc'>> \in PcOrder]_vars
    /\ [][message # None => message' = message]_vars
    /\ [][/\ user' # user => pc = "create"
          /\ message' # message => pc = "message"
          /\ summary' # summary => pc = "summarize"
          /\ stdout' # stdout => pc = "print"
          /\ exit_code' # exit_code => pc = "return"]_vars

C8_Witness ==
    /\ pc = "done"
    /\ user # None
    /\ message # None
    /\ summary # None
    /\ stdout # <<>>

\* C9: no step mutates the user record: from its creation to the exit its
\* fields are johndoe, john@example.com, 1 and true, and a call of
\* summarize or default_summary leaves its record as it was.
C9_UserNeverMutated ==
    /\ [](user # None =>
            user[1] = [username |-> Lit_johndoe, email |-> Lit_john_email,
                       sign_in_count |-> 1, active |-> TRUE])
    /\ [][user # None => user' = user]_vars
    /\ [](call.op \in {"summarize", "default_summary"} =>
            call.after = call.self)

C9_Witness ==
    /\ pc = "done"
    /\ user # None
    /\ user[1].sign_in_count = 1
    /\ call.op = "default_summary"

\* C10: the result of summarize depends on the username and the email
\* alone: every User value with the same username and email, whatever its
\* sign_in_count and active, has the same summary, and a second call on
\* the same record returns the same text as the first.
C10_SummarizeReadsNameAndEmailOnly ==
    call.op = "summarize" =>
        /\ \A other \in UserType :
              (other.username = call.self.username
                 /\ other.email = call.self.email)
              => User_summarize(other) = call.ret
        /\ call.again # None => call.again[1] = call.ret

C10_Witness ==
    /\ call.op = "summarize"
    /\ call.again # None
    /\ call.self.sign_in_count = 0
    /\ ~call.self.active
    /\ call.self.username # <<>>

===========================================================================
